---- MODULE Spec2Model ----
(***************************************************************************)
(* Model of the random map generator of libsdl-demos (src/src/random.cpp): *)
(* hex-grid coordinate math, the voronoi region generator rGenerate, the   *)
(* region adjacency scan regionNeighbors and the greedy terrain colouring  *)
(* assignTerrain.                                                          *)
(***************************************************************************)
EXTENDS Integers, Sequences, FiniteSets, TLC

\* ------------------------------------------------------------ constants
hMapWidth == 16
hMapHeight == 9
hMapSize == hMapWidth * hMapHeight
numRegions == 18
numTerrains == 6
numPasses == 4
Sint16Max == 32767
hInvalid == <<-1, -1>>

\* Bounds of the seed family drawn in place of hexRandom().
MaxBase == 5
MaxStride == 40
MaxCurve == 2
\* Bounds of the family of total region assignments given to regionNeighbors.
MaxColStep == 3
MaxRowStep == 3

Cells == 0 .. (hMapSize - 1)
Regions == 0 .. (numRegions - 1)
Terrains == 0 .. (numTerrains - 1)
Dirs == 0 .. 5

VARIABLES
    pc,             \* position in the program
    hCenters,       \* rGenerate: centre of each region
    regions,        \* rGenerate: region of each hex
    iPass,          \* rGenerate: relaxation round counter (i)
    iScan,          \* regionNeighbors: hex being scanned (i)
    adjacencyList,  \* regionNeighbors: ret, then main's adjacencyList
    terrain,        \* assignTerrain: terrain of each region, -1 = unassigned
    rNext,          \* assignTerrain: region being coloured (r)
    aIndex,         \* grid math: the hex a query starts from
    dir,            \* grid math: direction passed to aryGetNeighbor
    aNeighbor,      \* grid math: result of aryGetNeighbor(aIndex, dir)
    aBack,          \* grid math: result of the reverse query from aNeighbor
    steps,          \* grid math: number of hex steps walked away from aIndex
    walked,         \* grid math: walked[a] = fewest steps to reach a, -1 = not yet
    frontier        \* grid math: the hexes first reached by the last step

vars == <<pc, hCenters, regions, iPass, iScan, adjacencyList, terrain, rNext,
          aIndex, dir, aNeighbor, aBack, steps, walked, frontier>>

genVars == <<hCenters, regions, iPass>>
adjVars == <<iScan, adjacencyList>>
terVars == <<terrain, rNext>>
hexVars == <<aIndex, dir, aNeighbor, aBack, steps, walked, frontier>>

\* ------------------------------------------------------------ helpers
Range(s) == {s[k] : k \in DOMAIN s}
Abs(x) == IF x < 0 THEN -x ELSE x
Max(x, y) == IF x < y THEN y ELSE x

\* ------------------------------------------------------ grid coordinate math
hexFromAry(a) == <<a % hMapWidth, a \div hMapWidth>>

aryFromHex(hex) == hex[2] * hMapWidth + hex[1]

\* hexDist without the stagger correction (vPenalty always 0).
hexDist_NoPenalty(h1, h2) ==
    IF h1 = hInvalid \/ h2 = hInvalid
    THEN Sint16Max
    ELSE LET dx == Abs(h1[1] - h2[1])
             dy == Abs(h1[2] - h2[2])
         IN  Max(dx, dy + (dx \div 2))

hexDist(h1, h2) ==
    IF h1 = hInvalid \/ h2 = hInvalid
    THEN Sint16Max
    ELSE LET dx == Abs(h1[1] - h2[1])
             dy == Abs(h1[2] - h2[2])
             vPenalty ==
                 IF \/ (h1[2] < h2[2] /\ h1[1] % 2 = 0 /\ h2[1] % 2 = 1)
                    \/ (h1[2] > h2[2] /\ h1[1] % 2 = 1 /\ h2[1] % 2 = 0)
                 THEN 1 ELSE 0
         IN  Max(dx, dy + vPenalty + (dx \div 2))

\* aryGetNeighbor without the bottom-row test of the odd-column southeast case.
aryGetNeighbor_NoBottomTest(a, d) ==
    IF d = 0 /\ a >= hMapWidth THEN a - hMapWidth
    ELSE IF d = 1 /\ (a % hMapWidth < hMapWidth - 1) THEN
        IF a % 2 = 0
        THEN (IF a >= hMapWidth THEN a - hMapWidth + 1 ELSE -1)
        ELSE a + 1
    ELSE IF d = 2 /\ (a % hMapWidth < hMapWidth - 1) THEN
        IF a % 2 = 0
        THEN a + 1
        ELSE a + hMapWidth + 1
    ELSE IF d = 3 /\ (a < hMapSize - hMapWidth) THEN a + hMapWidth
    ELSE IF d = 4 /\ (a % hMapWidth > 0) THEN
        IF a % 2 = 0
        THEN a - 1
        ELSE (IF a < hMapSize - hMapWidth THEN a + hMapWidth - 1 ELSE -1)
    ELSE IF d = 5 /\ (a % hMapWidth > 0) THEN
        IF a % 2 = 0
        THEN (IF a >= hMapWidth THEN a - hMapWidth - 1 ELSE -1)
        ELSE a - 1
    ELSE -1

aryGetNeighbor(a, d) ==
    IF d = 0 /\ a >= hMapWidth THEN a - hMapWidth
    ELSE IF d = 1 /\ (a % hMapWidth < hMapWidth - 1) THEN
        IF a % 2 = 0
        THEN (IF a >= hMapWidth THEN a - hMapWidth + 1 ELSE -1)
        ELSE a + 1
    ELSE IF d = 2 /\ (a % hMapWidth < hMapWidth - 1) THEN
        IF a % 2 = 0
        THEN a + 1
        ELSE (IF a < hMapSize - hMapWidth THEN a + hMapWidth + 1 ELSE -1)
    ELSE IF d = 3 /\ (a < hMapSize - hMapWidth) THEN a + hMapWidth
    ELSE IF d = 4 /\ (a % hMapWidth > 0) THEN
        IF a % 2 = 0
        THEN a - 1
        ELSE (IF a < hMapSize - hMapWidth THEN a + hMapWidth - 1 ELSE -1)
    ELSE IF d = 5 /\ (a % hMapWidth > 0) THEN
        IF a % 2 = 0
        THEN (IF a >= hMapWidth THEN a - hMapWidth - 1 ELSE -1)
        ELSE a - 1
    ELSE -1

\* The neighbours of a hex, in direction order 0..5, absent ones left out.
aryNeighbors(a) ==
    LET all == [d \in 1 .. 6 |-> aryGetNeighbor(a, d - 1)]
        Present(n) == n # -1
    IN  SelectSeq(all, Present)

\* Hex n is a neighbour of hex a in some direction.
IsNeighbor(a, n) == \E d \in Dirs : aryGetNeighbor(a, d) = n

\* ------------------------------------------------ grid math: specification
\* A hex is drawn; either one neighbour query and its reverse are made, or
\* the grid is walked outward from the hex one step at a time.
InitHex ==
    /\ pc = "hex"
    /\ aIndex \in Cells
    /\ dir = -1
    /\ aNeighbor = -1
    /\ aBack = -1
    /\ steps = 0
    /\ walked = [a \in Cells |-> IF a = aIndex THEN 0 ELSE -1]
    /\ frontier = {aIndex}
    /\ hCenters = [r \in Regions |-> hInvalid]
    /\ regions = [a \in Cells |-> 0]
    /\ iPass = 0
    /\ iScan = 0
    /\ adjacencyList = [r \in Regions |-> <<>>]
    /\ terrain = [r \in Regions |-> -1]
    /\ rNext = 0

GetNeighbor ==
    /\ pc = "hex"
    /\ \E d \in Dirs :
        /\ dir' = d
        /\ aNeighbor' = aryGetNeighbor(aIndex, d)
    /\ pc' = "neighbor"
    /\ UNCHANGED <<aIndex, aBack, steps, walked, frontier, genVars, adjVars, terVars>>

GetNeighborBack ==
    /\ pc = "neighbor"
    /\ aNeighbor # -1
    /\ aBack' = aryGetNeighbor(aNeighbor, (dir + 3) % 6)
    /\ pc' = "back"
    /\ UNCHANGED <<aIndex, dir, aNeighbor, steps, walked, frontier, genVars, adjVars, terVars>>

\* One more step along aryGetNeighbor, in every direction, from the hexes
\* first reached by the previous step.
WalkStep ==
    /\ pc \in {"hex", "walk"}
    /\ ~(\A n \in Cells : walked[n] # -1)
    /\ frontier' = {n \in {aryGetNeighbor(a, d) : a \in frontier, d \in Dirs} :
                        n # -1 /\ walked[n] = -1}
    /\ walked' = [n \in Cells |-> IF n \in frontier' THEN steps + 1 ELSE walked[n]]
    /\ steps' = steps + 1
    /\ pc' = "walk"
    /\ UNCHANGED <<aIndex, dir, aNeighbor, aBack, genVars, adjVars, terVars>>

NextHex == GetNeighbor \/ GetNeighborBack \/ WalkStep

SpecHex == InitHex /\ [][NextHex]_vars

\* ------------------------------------------------------- region generator
\* The comparison of rFindClosest, with <= in place of <.
Closer_OrEqual(dist, bestSoFar) == dist <= bestSoFar

Closer(dist, bestSoFar) == dist < bestSoFar

\* The loop of rFindClosest over region ids i .. numRegions-1.
RECURSIVE rFindClosestLoop(_, _, _, _, _)
rFindClosestLoop(h, centers, i, rClosest, bestSoFar) ==
    IF i >= numRegions
    THEN rClosest
    ELSE IF Closer(hexDist(h, centers[i]), bestSoFar)
         THEN rFindClosestLoop(h, centers, i + 1, i, hexDist(h, centers[i]))
         ELSE rFindClosestLoop(h, centers, i + 1, rClosest, bestSoFar)

\* rFindClosest with bestSoFar starting at 0 instead of the largest Sint16.
rFindClosest_BestZero(hx, hy, centers) ==
    rFindClosestLoop(<<hx, hy>>, centers, 0, -1, 0)

rFindClosest(hx, hy, centers) ==
    rFindClosestLoop(<<hx, hy>>, centers, 0, -1, Sint16Max)

\* One assignment pass: every hex gets the region rFindClosest returns.
AssignAll(centers) ==
    [a \in Cells |-> rFindClosest(a % hMapWidth, a \div hMapWidth, centers)]

\* hexSums[r].first after the first loop of hGetCenters: hx added once for
\* every hex of column hx that lies in region r, for hx = from .. hMapWidth-1.
\* The sums stay below 16*144, far from the Sint16 range.
RECURSIVE hexSumFirst(_, _, _)
hexSumFirst(regs, r, from) ==
    IF from >= hMapWidth
    THEN 0
    ELSE from * Cardinality({hy \in 0 .. (hMapHeight - 1) : regs[hy * hMapWidth + from] = r})
         + hexSumFirst(regs, r, from + 1)

\* hexSums[r].second: hy added once for every hex of row hy in region r.
RECURSIVE hexSumSecond(_, _, _)
hexSumSecond(regs, r, from) ==
    IF from >= hMapHeight
    THEN 0
    ELSE from * Cardinality({hx \in 0 .. (hMapWidth - 1) : regs[from * hMapWidth + hx] = r})
         + hexSumSecond(regs, r, from + 1)

\* numHexes[r] after the first loop of hGetCenters.
numHexes(regs, r) == Cardinality({a \in Cells : regs[a] = r})

\* The centre hGetCenters leaves for a region that owns no hex; here the
\* value-initialised Point (0,0) instead of hInvalid.
EmptyCenter_Zero == <<0, 0>>

EmptyCenter == hInvalid

hGetCenters(regs) ==
    [r \in Regions |->
        IF numHexes(regs, r) > 0
        THEN <<hexSumFirst(regs, r, 0) \div numHexes(regs, r),
               hexSumSecond(regs, r, 0) \div numHexes(regs, r)>>
        ELSE EmptyCenter]

\* The seeds drawn by hexRandom(): region r gets the hex numbered
\* (base + r*stride + r*r*curve) mod hMapSize.  Seeds repeat for many of the
\* parameters (all eighteen are the same hex when stride = curve = 0).
Seeds(base, stride, curve) ==
    [r \in Regions |-> hexFromAry((base + r * stride + r * r * curve) % hMapSize)]

\* -------------------------------------------------------- region adjacency
\* The test of regionNeighbors, recording only higher-numbered regions.
RecordNeighbor_OneWay(list, reg, rNeighbor) ==
    IF rNeighbor > reg /\ ~(\E k \in DOMAIN list : list[k] = rNeighbor)
    THEN Append(list, rNeighbor)
    ELSE list

\* The test of regionNeighbors without the search of the list.
RecordNeighbor_NoFind(list, reg, rNeighbor) ==
    IF rNeighbor # reg
    THEN Append(list, rNeighbor)
    ELSE list

RecordNeighbor(list, reg, rNeighbor) ==
    IF rNeighbor # reg /\ ~(\E k \in DOMAIN list : list[k] = rNeighbor)
    THEN Append(list, rNeighbor)
    ELSE list

\* The inner loop of regionNeighbors over av = aryNeighbors(i).
RECURSIVE ScanNeighbors(_, _, _, _, _)
ScanNeighbors(regs, av, k, reg, list) ==
    IF k > Len(av)
    THEN list
    ELSE ScanNeighbors(regs, av, k + 1, reg, RecordNeighbor(list, reg, regs[av[k]]))

\* ------------------------------------------------------- terrain colouring
\* The test of assignTerrain for an assigned neighbour, with > 0 for > -1.
Assigned_Positive(t) == t > 0

Assigned(t) == t > -1

\* The bitset assignedTerrains after the loop over adj[r].
NeighborTerrains(list, terr) ==
    {terr[list[k]] : k \in {j \in DOMAIN list : Assigned(terr[list[j]])}}

RECURSIVE FirstFree(_, _)
FirstFree(assignedTerrains, t) ==
    IF t >= numTerrains THEN -1
    ELSE IF t \notin assignedTerrains THEN t
    ELSE FirstFree(assignedTerrains, t + 1)

\* The loop over t without its break: the last free terrain wins.
RECURSIVE LastFree(_, _, _)
LastFree(assignedTerrains, t, found) ==
    IF t >= numTerrains THEN found
    ELSE LastFree(assignedTerrains, t + 1,
                  IF t \notin assignedTerrains THEN t ELSE found)

PickTerrain_NoBreak(assignedTerrains) ==
    IF assignedTerrains # Terrains
    THEN LastFree(assignedTerrains, 0, -1)
    ELSE 0

PickTerrain(assignedTerrains) ==
    IF assignedTerrains # Terrains
    THEN FirstFree(assignedTerrains, 0)
    ELSE 0

\* --------------------------------------------- the program: specification
\* main: rGenerate, then regionNeighbors, then assignTerrain.
hexIdle ==
    /\ aIndex = 0
    /\ dir = -1
    /\ aNeighbor = -1
    /\ aBack = -1
    /\ steps = 0
    /\ walked = [a \in Cells |-> -1]
    /\ frontier = {}

Init ==
    /\ pc = "assign"
    /\ \E base \in 0 .. MaxBase, stride \in 0 .. MaxStride, curve \in 0 .. MaxCurve :
           hCenters = Seeds(base, stride, curve)
    /\ regions = [a \in Cells |-> 0]
    /\ iPass = 0
    /\ iScan = 0
    /\ adjacencyList = [r \in Regions |-> <<>>]
    /\ terrain = [r \in Regions |-> -1]
    /\ rNext = 0
    /\ hexIdle

\* One relaxation round's assignment loop of rGenerate.
AssignPass ==
    /\ pc = "assign"
    /\ iPass < numPasses
    /\ regions' = AssignAll(hCenters)
    /\ pc' = "centers"
    /\ UNCHANGED <<hCenters, iPass, adjVars, terVars, hexVars>>

\* hGetCenters, with its range assertion, closing a relaxation round.
GetCenters ==
    /\ pc = "centers"
    /\ IF \A a \in Cells : regions[a] \in Regions
       THEN /\ hCenters' = hGetCenters(regions)
            /\ iPass' = iPass + 1
            /\ pc' = "assign"
       ELSE /\ pc' = "abort"
            /\ UNCHANGED <<hCenters, iPass>>
    /\ UNCHANGED <<regions, adjVars, terVars, hexVars>>

\* The final assignment loop of rGenerate; regionNeighbors starts.
FinalAssign ==
    /\ pc = "assign"
    /\ iPass = numPasses
    /\ regions' = AssignAll(hCenters)
    /\ pc' = "scan"
    /\ UNCHANGED <<hCenters, iPass, adjVars, terVars, hexVars>>

\* One iteration of the outer loop of regionNeighbors; after the last hex
\* the list is returned and assignTerrain starts.
ScanCell ==
    /\ pc = "scan"
    /\ iScan < hMapSize
    /\ IF regions[iScan] \in Regions
       THEN /\ adjacencyList' =
                   [adjacencyList EXCEPT ![regions[iScan]] =
                       ScanNeighbors(regions, aryNeighbors(iScan), 1, regions[iScan], @)]
            /\ iScan' = iScan + 1
            /\ pc' = IF iScan + 1 = hMapSize THEN "terrain" ELSE "scan"
       ELSE /\ pc' = "abort"
            /\ UNCHANGED <<iScan, adjacencyList>>
    /\ UNCHANGED <<genVars, terVars, hexVars>>

\* One iteration of the loop of assignTerrain over the regions.
AssignTerrainStep ==
    /\ pc = "terrain"
    /\ rNext < numRegions
    /\ IF \A k \in DOMAIN adjacencyList[rNext] : adjacencyList[rNext][k] \in Regions
       THEN /\ terrain' = [terrain EXCEPT ![rNext] =
                              PickTerrain(NeighborTerrains(adjacencyList[rNext], terrain))]
            /\ rNext' = rNext + 1
            /\ pc' = IF rNext + 1 = numRegions THEN "done" ELSE "terrain"
       ELSE /\ pc' = "abort"
            /\ UNCHANGED <<terrain, rNext>>
    /\ UNCHANGED <<genVars, adjVars, hexVars>>

Next == AssignPass \/ GetCenters \/ FinalAssign \/ ScanCell \/ AssignTerrainStep

Spec == Init /\ [][Next]_vars

\* regionNeighbors and assignTerrain on a family of total region assignments:
\* the hex in column x and row y is given region (cs*x + rs*y) mod m.
InitAdj ==
    /\ pc = "scan"
    /\ \E cs \in 0 .. MaxColStep, rs \in 0 .. MaxRowStep, m \in 1 .. numRegions :
           regions = [a \in Cells |->
                         (cs * (a % hMapWidth) + rs * (a \div hMapWidth)) % m]
    /\ hCenters = [r \in Regions |-> hInvalid]
    /\ iPass = numPasses
    /\ iScan = 0
    /\ adjacencyList = [r \in Regions |-> <<>>]
    /\ terrain = [r \in Regions |-> -1]
    /\ rNext = 0
    /\ hexIdle

NextAdj == ScanCell \/ AssignTerrainStep

SpecAdj == InitAdj /\ [][NextAdj]_vars

\* ------------------------------------------- properties of the grid math
\* C4: hexDist(coord(a), coord(b)) is the length of a shortest path from a to
\* b along aryGetNeighbor steps: a hex is reached within `steps` steps exactly
\* when its hexDist from the start is at most `steps`, and the step count at
\* which it is first reached equals its hexDist.
C4_DistIsShortestPath ==
    pc \in {"hex", "walk"} =>
        \A b \in Cells :
            LET d == hexDist(hexFromAry(aIndex), hexFromAry(b))
            IN  /\ (walked[b] # -1) <=> (d <= steps)
                /\ walked[b] # -1 => walked[b] = d
                /\ (d = 0) <=> (b = aIndex)
                /\ (d = 1) <=> IsNeighbor(aIndex, b)

C4_Witness ==
    /\ pc = "walk"
    /\ \A b \in Cells : walked[b] # -1
    /\ steps >= 15
    /\ \E b \in Cells : walked[b] = steps /\ hexFromAry(b)[2] # hexFromAry(aIndex)[2]

\* C5: a neighbour returned by aryGetNeighbor is a hex of the grid, and the
\* query from it in the opposite direction returns the starting hex, so the
\* starting hex is among the neighbour's aryNeighbors.
C5_NeighborSymmetry ==
    /\ pc \in {"neighbor", "back"} /\ aNeighbor # -1 => aNeighbor \in Cells
    /\ pc = "back" => /\ aBack = aIndex
                      /\ aIndex \in Range(aryNeighbors(aNeighbor))

C5_Witness ==
    /\ pc = "back"
    /\ aBack = aIndex
    /\ dir = 2
    /\ aIndex % 2 = 1

\* ------------------------------------------------- properties of the program
\* The hexes of region r joined to hex set `seen` by steps along
\* aryGetNeighbor that stay inside region r; `front` is the last layer added.
RECURSIVE Component(_, _, _, _)
Component(regs, r, seen, front) ==
    LET nxt == {n \in {aryGetNeighbor(a, d) : a \in front, d \in Dirs} :
                   n # -1 /\ regs[n] = r /\ n \notin seen}
    IN  IF nxt = {} THEN seen ELSE Component(regs, r, seen \cup nxt, nxt)

Members(regs, r) == {a \in Cells : regs[a] = r}

NonEmpty(regs) == {r \in Regions : Members(regs, r) # {}}

\* rGenerate has returned and regionNeighbors has not started its scan.
Returned == pc = "scan" /\ iScan = 0

\* C1: after every assignment pass of rGenerate, the four relaxation passes
\* and the final one, every hex holds one region id in [0, numRegions):
\* rFindClosest never returns -1 and the assertion of hGetCenters never fails.
C1_PartitionTotal ==
    /\ pc # "abort"
    /\ \A a \in Cells : regions[a] \in Regions

C1_Witness ==
    /\ Returned
    /\ iPass = numPasses
    /\ Cardinality(NonEmpty(regions)) >= 12
    /\ Cardinality(NonEmpty(regions)) < numRegions

\* C3: in the assignment rGenerate returns, every non-empty region is
\* connected: all its hexes are joined to one of them by neighbour steps
\* that stay inside the region.
C3_RegionsContiguous ==
    Returned =>
        \A r \in Regions :
            \/ Members(regions, r) = {}
            \/ LET a0 == CHOOSE a \in Members(regions, r) : TRUE
               IN  Component(regions, r, {a0}, {a0}) = Members(regions, r)

C3_Witness ==
    /\ Returned
    /\ Cardinality(NonEmpty(regions)) >= 15
    /\ \E r \in Regions : Cardinality(Members(regions, r)) >= 20

\* C8: a region that owns no hex after an assignment pass has the invalid
\* centre from hGetCenters and owns no hex after the next pass, so the set of
\* non-empty regions never grows.
C8_EmptyStaysEmpty ==
    [][(pc = "assign" /\ iPass >= 1) =>
          \A r \in Regions :
              Members(regions, r) = {} =>
                  /\ hCenters[r] = hInvalid
                  /\ Members(regions', r) = {}]_vars

\* A region without a centre from the last round is empty again, next to
\* regions that do own hexes.
C8_Witness ==
    /\ pc \in {"centers", "scan"}
    /\ iPass >= 2
    /\ \E r \in Regions : hCenters[r] = hInvalid /\ Members(regions, r) = {}
    /\ Cardinality(NonEmpty(regions)) >= 2

\* C9: with at least one valid centre, rFindClosest gives every hex the
\* region whose centre is at the least hexDist, the lowest id among those at
\* that distance; of two regions with the same centre the higher id gets no
\* hex.
C9_ClosestLowestId ==
    (pc = "centers" \/ Returned) /\ (\E j \in Regions : hCenters[j] # hInvalid) =>
        /\ \A a \in Cells :
               /\ regions[a] \in Regions
               /\ \A j \in Regions :
                      /\ hexDist(hexFromAry(a), hCenters[regions[a]])
                             <= hexDist(hexFromAry(a), hCenters[j])
                      /\ j < regions[a] =>
                             hexDist(hexFromAry(a), hCenters[regions[a]])
                                 < hexDist(hexFromAry(a), hCenters[j])
        /\ \A i, j \in Regions :
               i < j /\ hCenters[i] = hCenters[j] => Members(regions, j) = {}

\* Two regions share a valid centre, and some hex is equally far from the
\* centres of its own region and of a higher-numbered one elsewhere.
C9_Witness ==
    /\ pc = "centers"
    /\ \E i, j \in Regions : i < j /\ hCenters[i] = hCenters[j] /\ hCenters[i] # hInvalid
    /\ \E a \in Cells, j \in Regions :
           /\ j > regions[a]
           /\ hCenters[j] # hCenters[regions[a]]
           /\ hexDist(hexFromAry(a), hCenters[j])
                  = hexDist(hexFromAry(a), hCenters[regions[a]])

\* --------------------------------- properties of adjacency and terrain
\* The pairs <<region of a hex, region of one of its neighbours>>.
Borders(regs) ==
    UNION {{<<regs[a], regs[aryGetNeighbor(a, d)]>> :
               d \in {e \in Dirs : aryGetNeighbor(a, e) # -1}} : a \in Cells}

\* The terrains of the neighbours of r that were coloured before r.
Forbidden(r) ==
    {terrain[adjacencyList[r][k]] :
        k \in {j \in DOMAIN adjacencyList[r] : adjacencyList[r][j] < r}}

\* C6: at every step of the scan of regionNeighbors no region is in its own
\* adjacency list and no region id is twice in one list.
C6_AdjWellFormed ==
    \A r \in Regions :
        \A k \in DOMAIN adjacencyList[r] :
            /\ adjacencyList[r][k] # r
            /\ \A j \in DOMAIN adjacencyList[r] :
                   j # k => adjacencyList[r][j] # adjacencyList[r][k]

\* Mid-scan, the hex just scanned has a neighbour in its own region and one
\* in another region, and its region's list already holds several regions.
C6_Witness ==
    /\ pc = "scan"
    /\ iScan > 2 * hMapWidth
    /\ Len(adjacencyList[regions[iScan - 1]]) >= 4
    /\ \E d \in Dirs :
           /\ aryGetNeighbor(iScan - 1, d) # -1
           /\ regions[aryGetNeighbor(iScan - 1, d)] = regions[iScan - 1]
    /\ \E d \in Dirs :
           /\ aryGetNeighbor(iScan - 1, d) # -1
           /\ regions[aryGetNeighbor(iScan - 1, d)] # regions[iScan - 1]

\* C7: in the list regionNeighbors returns, s is in the list of r exactly
\* when r # s and some hex of r has a neighbour in s; so s is in the list of
\* r exactly when r is in the list of s.
C7_AdjExactSymmetric ==
    pc = "terrain" /\ rNext = 0 =>
        LET B == Borders(regions)
        IN  \A r, s \in Regions :
                /\ (s \in Range(adjacencyList[r])) <=> (r # s /\ <<r, s>> \in B)
                /\ (s \in Range(adjacencyList[r])) <=> (r \in Range(adjacencyList[s]))

C7_Witness ==
    /\ pc = "terrain"
    /\ rNext = 0
    /\ \E r, s \in Regions :
           /\ r < s
           /\ s \in Range(adjacencyList[r])
           /\ r \in Range(adjacencyList[s])
    /\ \E r, s \in Regions :
           /\ r # s
           /\ Len(adjacencyList[r]) > 0
           /\ Len(adjacencyList[s]) > 0
           /\ s \notin Range(adjacencyList[r])

\* C10: assignTerrain colours the regions in ascending id order; each gets
\* the lowest terrain not used by its already coloured neighbours, or 0 when
\* all numTerrains are used, so every region ends with one terrain in
\* [0, numTerrains) and a region without coloured neighbours gets 0.
C10_GreedyLowest ==
    pc \in {"terrain", "done"} =>
        /\ \A r \in Regions :
               IF r < rNext
               THEN /\ terrain[r] \in Terrains
                    /\ Forbidden(r) = Terrains => terrain[r] = 0
                    /\ Forbidden(r) # Terrains =>
                           /\ terrain[r] \notin Forbidden(r)
                           /\ \A t \in Terrains : t < terrain[r] => t \in Forbidden(r)
               ELSE terrain[r] = -1
        /\ pc = "done" => rNext = numRegions

C10_Witness ==
    /\ pc = "done"
    /\ \E r \in Regions : terrain[r] = numTerrains - 1
    /\ \E r \in Regions : r > 0 /\ adjacencyList[r] = <<>> /\ terrain[r] = 0
    /\ \E r \in Regions : Forbidden(r) = Terrains /\ terrain[r] = 0

\* C2: two adjacent regions share a terrain only when the later one found
\* all numTerrains terrains used by its already coloured neighbours, and then
\* the shared terrain is the fallback 0.
C2_ColoringValidOrClash ==
    pc \in {"terrain", "done"} =>
        \A r1, r2 \in Regions :
            /\ r1 < r2
            /\ r2 < rNext
            /\ (r2 \in Range(adjacencyList[r1]) \/ r1 \in Range(adjacencyList[r2]))
            /\ terrain[r1] = terrain[r2]
            => /\ Forbidden(r2) = Terrains
               /\ terrain[r2] = 0

\* A finished colouring with a clash between adjacent regions next to
\* adjacent regions that differ.
C2_Witness ==
    /\ pc = "done"
    /\ \E r1, r2 \in Regions :
           /\ r1 < r2
           /\ r2 \in Range(adjacencyList[r1])
           /\ terrain[r1] = terrain[r2]
    /\ \E r1, r2 \in Regions :
           /\ r1 < r2
           /\ r2 \in Range(adjacencyList[r1])
           /\ terrain[r1] # terrain[r2]

====
